---- MODULE Spec2Model ----
(***************************************************************************)
(* Model of the consensus test harness of                                  *)
(* src/src/components/consensus/highway_testing.rs: Node, QueueEntry and   *)
(* its ordering, Queue (a std BinaryHeap), Strategy / DeliverySchedule and *)
(* TestHarness with schedule_message, crank and send_messages.             *)
(***************************************************************************)
EXTENDS Naturals, Integers, Sequences, FiniteSets, Bags, TLC

(* ------------------------------ bounds -------------------------------- *)
\* NodeId values range over 1..MaxNodeId, Instant values over 0..MaxTime,
\* payloads over 0..MaxPayload.
MaxNodeId == 3
MaxTime == 1
MaxPayload == 1
\* Senders of the messages the driver injects range over 1..MaxSender.
MaxSender == 2
\* Longest output list one protocol call returns.
MaxOut == 1
\* Largest extra delay the rng-driven strategy adds.
MaxDelay == 1
\* Messages all protocol instances together return in one run.
MaxProduced == 1
\* Calls of schedule_message by the driver, and calls of crank, in one run.
MaxInjected == 2
MaxCranks == 2

NodeIds == 1..MaxNodeId
Instants == 0..MaxTime
Payloads == 0..MaxPayload
Senders == 1..MaxSender

(* --------------------------- value types ------------------------------ *)
\* struct Message { sender, payload } and Message::new.
Message(sender, payload) == [sender |-> sender, payload |-> payload]
\* The messages the driver injects with schedule_message.
Messages == [sender : Senders, payload : Payloads]

\* enum Target { SingleNode(NodeId), All }.
TargetAll == [kind |-> "All", id |-> 0]
SingleNode(id) == [kind |-> "SingleNode", id |-> id]
Targets == {TargetAll} \cup {SingleNode(id) : id \in NodeIds}

\* struct TargetedMessage { message, target }.
TargetedMessage(message, target) == [message |-> message, target |-> target]

\* enum DeliverySchedule { AtInstant(Instant), Drop }; DeliverySchedule::at,
\* DeliverySchedule::drop and From<Instant>.
AtInstant(instant) == [kind |-> "AtInstant", instant |-> instant]
Drop == [kind |-> "Drop", instant |-> 0]
ScheduleFromDrop(instant) == Drop
ScheduleFrom(instant) == AtInstant(instant)

\* enum TestRunError and the Ok(()) of crank; None before any crank.
NoResult == [kind |-> "None", id |-> 0]
Ok == [kind |-> "Ok", id |-> 0]
NoMessagesAsOk == [kind |-> "Ok", id |-> 0]
NoMessages == [kind |-> "NoMessages", id |-> 0]
MissingRecipientAsOk(id) == [kind |-> "Ok", id |-> 0]
MissingRecipient(id) == [kind |-> "MissingRecipient", id |-> id]

(* ------------------------- QueueEntry order --------------------------- *)
\* std::cmp::Ordering as -1 (Less), 0 (Equal), 1 (Greater).
Less == 0 - 1
Equal == 0
Greater == 1

\* Ord for u64 (derived for NodeId, Instant; payload type M = u64).
Cmp(a, b) == IF a < b THEN Less ELSE IF a = b THEN Equal ELSE Greater

\* Ordering::then_with.
ThenWith(first, next) == IF first # Equal THEN first ELSE next

\* QueueEntry::new.
QueueEntry(delivery_time, recipient, message) ==
    [delivery_time |-> delivery_time, recipient |-> recipient, message |-> message]

EntryCmpWithSender(a, b) ==
    ThenWith(ThenWith(ThenWith(Cmp(a.delivery_time, b.delivery_time),
                               Cmp(a.recipient, b.recipient)),
                      Cmp(a.message.payload, b.message.payload)),
             Cmp(a.message.sender, b.message.sender))

\* impl Ord for QueueEntry: delivery_time, then recipient, then payload.
EntryCmp(a, b) ==
    ThenWith(ThenWith(Cmp(a.delivery_time, b.delivery_time),
                      Cmp(a.recipient, b.recipient)),
             Cmp(a.message.payload, b.message.payload))

(* ------------------------------ Queue --------------------------------- *)
\* Queue wraps std::collections::BinaryHeap, a max-heap: the heap's contents
\* are a bag of entries, and pop removes a greatest entry under Ord.  Which of
\* several entries that compare Equal comes out is left open by the heap.
QueuePushDedup(q, item) == IF BagIn(item, q) THEN q ELSE q (+) SetToBag({item})

\* Queue::push.
QueuePush(q, item) == q (+) SetToBag({item})

PopMin(q) ==
    {e \in BagToSet(q) : \A f \in BagToSet(q) : EntryCmp(f, e) # Less}

\* The entries Queue::pop may return; empty when the queue is empty.
QueuePop(q) ==
    {e \in BagToSet(q) : \A f \in BagToSet(q) : EntryCmp(f, e) # Greater}

QueuePeek(q, item) == q

QueueRemoveAll(q, item) == EmptyBag

\* The queue once pop has taken item out of it.
QueueRemove(q, item) == q (-) SetToBag({item})

(* ------------------------ ConsensusInstance --------------------------- *)
SeqUpTo(S, n) == UNION {[1..k -> S] : k \in 0..n}

\* A protocol instance is the harness's input.  Its state is the list of the
\* calls it has received, each with what it returned.  NoOpConsensus (the test stub) always returns no
\* output; a "Gossip" instance stands for a protocol that talks: it returns
\* any list of at most MaxOut messages, each the payload just received, sent
\* under the instance's own id to any target.
NewConsensus(kind, id) == [kind |-> kind, id |-> id, calls |-> <<>>]

ConsensusOutputs(consensus, sender, m, is_faulty) ==
    IF consensus.kind = "NoOp"
    THEN {<<>>}
    ELSE SeqUpTo({TargetedMessage(Message(consensus.id, m), t) :
                     t \in Targets}, MaxOut)

\* ConsensusInstance::handle_message: the instance after the call in which it
\* returned outband_msgs.
ConsensusHandleMessage(consensus, sender, m, is_faulty, outband_msgs) ==
    [consensus EXCEPT !.calls =
        Append(@, [sender |-> sender, m |-> m, is_faulty |-> is_faulty,
                   returned |-> outband_msgs])]

(* ------------------------------- Node --------------------------------- *)
\* Node::new.
NewNode(id, is_faulty, consensus) ==
    [id |-> id,
     is_faulty |-> is_faulty,
     finalized_values |-> <<>>,
     messages_received |-> <<>>,
     messages_produced |-> <<>>,
     consensus |-> consensus]

MessagesOfSingleNode(outband_msgs) ==
    LET single == SelectSeq(outband_msgs, LAMBDA tm : tm.target.kind # "All")
    IN  [i \in 1..Len(single) |-> single[i].message]

\* The messages of a list of TargetedMessages, in order.
MessagesOf(outband_msgs) == [i \in 1..Len(outband_msgs) |-> outband_msgs[i].message]

NodeHandleMessageFinalizes(node, sender, m, outband_msgs) ==
    [node EXCEPT
        !.messages_received = Append(@, Message(sender, m)),
        !.consensus = ConsensusHandleMessage(@, sender, m, node.is_faulty,
                                             outband_msgs),
        !.messages_produced = @ \o MessagesOf(outband_msgs),
        !.finalized_values = Append(@, m)]

NodeHandleMessageNoProduced(node, sender, m, outband_msgs) ==
    [node EXCEPT
        !.messages_received = Append(@, Message(sender, m)),
        !.consensus = ConsensusHandleMessage(@, sender, m, node.is_faulty,
                                             outband_msgs)]

NodeHandleMessagePrepends(node, sender, m, outband_msgs) ==
    [node EXCEPT
        !.messages_received = <<Message(sender, m)>> \o @,
        !.consensus = ConsensusHandleMessage(@, sender, m, node.is_faulty,
                                             outband_msgs),
        !.messages_produced = @ \o MessagesOf(outband_msgs)]

NodeHandleMessageNeverFaulty(node, sender, m, outband_msgs) ==
    [node EXCEPT
        !.messages_received = Append(@, Message(sender, m)),
        !.consensus = ConsensusHandleMessage(@, sender, m, FALSE,
                                             outband_msgs),
        !.messages_produced = @ \o MessagesOf(outband_msgs)]

\* Node::handle_message: the node after the call, when the protocol instance
\* returns outband_msgs.
NodeHandleMessage(node, sender, m, outband_msgs) ==
    [node EXCEPT
        !.messages_received = Append(@, Message(sender, m)),
        !.consensus = ConsensusHandleMessage(@, sender, m, node.is_faulty,
                                             outband_msgs),
        !.messages_produced = @ \o MessagesOf(outband_msgs)]

\* What Node::handle_message returns to crank: the protocol's list, as it is.
HandleMessageReturn(outband_msgs) == outband_msgs

(* ----------------------------- Strategy ------------------------------- *)
\* The strategies a harness is built with: "Default" is the trait's provided
\* map (identity), "SmallDelay" the test strategy (+1, never drops), "Lossy"
\* stands for an rng-driven strategy: one draw of the rng per call decides
\* between an extra delay of 0..MaxDelay and Drop.
Strategies == {"Default", "SmallDelay", "Lossy"}

\* The values one call of map can draw from the rng.
RngDraws(strategy) == IF strategy = "Lossy" THEN 0..(MaxDelay + 1) ELSE {0}

\* The rng after one call of map: only the rng-driven strategy advances it.
RngAfterMapStays(strategy, rng) == rng
RngAfterMap(strategy, rng) == IF strategy = "Lossy" THEN rng + 1 ELSE rng

\* Strategy::map(rng, i) for each strategy, `draw` being what the rng yields.
StrategyMap(strategy, draw, i) ==
    CASE strategy = "Default" -> i
      [] strategy = "SmallDelay" ->
            IF i.kind = "Drop" THEN Drop ELSE AtInstant(i.instant + 1)
      [] OTHER ->
            IF i.kind = "Drop" \/ draw > MaxDelay
            THEN Drop
            ELSE AtInstant(i.instant + draw)

(* --------------------------- TestHarness ------------------------------ *)
VARIABLES
    nodes_given,             \* the nodes TestHarness::new was given, in order
    nodes_map,               \* NodeId -> Node
    msg_queue,               \* the Queue: a bag of QueueEntry
    start_time,
    consensus_values,
    delivery_time_strategy,
    rand,                    \* state of the rng: the draws made so far
    \* What the driver of the harness observes and counts.
    cranks,                  \* calls of crank so far
    injected,                \* calls of schedule_message by the driver so far
    \* The previous call of the driver, when it was a crank (reset by a call
    \* of schedule_message):
    crank_result,            \* what it returned
    popped,                  \* <<entry>> it popped, or <<>>
    outband,                 \* what the protocol instance returned to it
    applied,                 \* its strategy calls, in order
    dispatched,              \* every entry popped so far, in order
    accepted,                \* bag of (recipient, message) scheduled, not dropped
    injected_messages,       \* the messages the driver has injected
    scheduled                \* <<arguments>> of the previous call of the driver
                             \* when it was schedule_message, or <<>>

vars == <<nodes_given, nodes_map, msg_queue, start_time, consensus_values,
          delivery_time_strategy, rand, cranks, injected, crank_result,
          popped, outband, applied, dispatched, accepted,
          injected_messages, scheduled>>

\* The fields of the harness that schedule_message, crank and send_messages
\* work on, with the log of the strategy calls made.
Harness ==
    [nodes_map |-> nodes_map,
     msg_queue |-> msg_queue,
     delivery_time_strategy |-> delivery_time_strategy,
     rand |-> rand,
     map_log |-> <<>>]

ScheduleMessageChecksRecipient(h, delivery_time, recipient, message) ==
    IF recipient \in DOMAIN h.nodes_map
    THEN [h EXCEPT !.msg_queue =
             QueuePush(@, QueueEntry(delivery_time, recipient, message))]
    ELSE h

\* TestHarness::schedule_message.
ScheduleMessage(h, delivery_time, recipient, message) ==
    LET qe == QueueEntry(delivery_time, recipient, message)
    IN  [h EXCEPT !.msg_queue = QueuePush(@, qe)]

\* The keys of the node table in ascending order (BTreeMap::keys).
RECURSIVE SortedKeys(_)
SortedKeys(S) ==
    IF S = {} THEN <<>>
    ELSE LET least == CHOOSE x \in S : \A y \in S : x <= y
         IN  <<least>> \o SortedKeys(S \ {least})

RecipientNodesSkipsFirst(target, table) ==
    IF target.kind = "All"
    THEN Tail(SortedKeys(DOMAIN table))
    ELSE <<target.id>>

RecipientNodesAllIds(target, table) ==
    IF target.kind = "All" THEN SortedKeys(NodeIds) ELSE <<target.id>>

RecipientNodesBroadcastsSingle(target, table) == SortedKeys(DOMAIN table)

\* The match on target in crank.
RecipientNodes(target, table) ==
    IF target.kind = "All"
    THEN SortedKeys(DOMAIN table)
    ELSE <<target.id>>

\* The strategy call send_messages makes for one recipient, added to the log;
\* the k-th strategy call of a crank gets the rng's k-th draw.
MapCall(h, node_id, message, base_delivery_time, draws) ==
    LET input == ScheduleFrom(base_delivery_time)
    IN  [message |-> message,
         node_id |-> node_id,
         input |-> input,
         output |-> StrategyMap(h.delivery_time_strategy,
                                draws[Len(h.map_log) + 1], input)]

SendOneKeepsDropped(h, node_id, message, base_delivery_time, draws) ==
    LET call == MapCall(h, node_id, message, base_delivery_time, draws)
        called ==
            [h EXCEPT !.rand = RngAfterMap(h.delivery_time_strategy, @),
                      !.map_log = Append(@, call)]
    IN  ScheduleMessage(called,
                        IF call.output.kind = "Drop"
                        THEN base_delivery_time ELSE call.output.instant,
                        node_id, message)

SendOneAtBaseTime(h, node_id, message, base_delivery_time, draws) ==
    LET call == MapCall(h, node_id, message, base_delivery_time, draws)
        called ==
            [h EXCEPT !.rand = RngAfterMap(h.delivery_time_strategy, @),
                      !.map_log = Append(@, call)]
    IN  IF call.output.kind = "Drop"
        THEN called
        ELSE ScheduleMessage(called, base_delivery_time, node_id, message)

SendOneRewritesSender(h, node_id, message, base_delivery_time, draws) ==
    LET call == MapCall(h, node_id, message, base_delivery_time, draws)
        called ==
            [h EXCEPT !.rand = RngAfterMap(h.delivery_time_strategy, @),
                      !.map_log = Append(@, call)]
    IN  IF call.output.kind = "Drop"
        THEN called
        ELSE ScheduleMessage(called, call.output.instant, node_id,
                             Message(node_id, message.payload))

SendOneAtStartTime(h, node_id, message, base_delivery_time, draws) ==
    LET call == MapCall(h, node_id, message, base_delivery_time, draws)
        called ==
            [h EXCEPT !.rand = RngAfterMap(h.delivery_time_strategy, @),
                      !.map_log = Append(@, call)]
    IN  IF call.output.kind = "Drop"
        THEN called
        ELSE ScheduleMessage(called, start_time, node_id, message)

SendOneChecksRecipient(h, node_id, message, base_delivery_time, draws) ==
    LET call == MapCall(h, node_id, message, base_delivery_time, draws)
        called ==
            [h EXCEPT !.rand = RngAfterMap(h.delivery_time_strategy, @),
                      !.map_log = Append(@, call)]
    IN  IF call.output.kind = "Drop" \/ node_id \notin DOMAIN h.nodes_map
        THEN called
        ELSE ScheduleMessage(called, call.output.instant, node_id, message)

SendOneProposes(h, node_id, message, base_delivery_time, draws) ==
    LET call == MapCall(h, node_id, message, base_delivery_time, draws)
        called ==
            [h EXCEPT !.rand = RngAfterMap(h.delivery_time_strategy, @),
                      !.map_log = Append(@, call)]
    IN  IF call.output.kind = "Drop"
        THEN called
        ELSE ScheduleMessage(called, call.output.instant, node_id,
                             Message(message.sender, consensus_values[1]))

\* The body of the loop of send_messages for recipient node_id.
SendOne(h, node_id, message, base_delivery_time, draws) ==
    LET call == MapCall(h, node_id, message, base_delivery_time, draws)
        tampered_delivery_time == call.output
        called ==
            [h EXCEPT !.rand = RngAfterMap(h.delivery_time_strategy, @),
                      !.map_log = Append(@, call)]
    IN  IF tampered_delivery_time.kind = "Drop"
        THEN called
        ELSE ScheduleMessage(called, tampered_delivery_time.instant,
                             node_id, message)

\* TestHarness::send_messages: the loop over the recipients, in order.
RECURSIVE SendMessages(_, _, _, _, _)
SendMessages(h, recipients, message, base_delivery_time, draws) ==
    IF recipients = <<>>
    THEN h
    ELSE SendMessages(SendOne(h, Head(recipients), message,
                              base_delivery_time, draws),
                      Tail(recipients), message, base_delivery_time, draws)

\* The for loop of crank over the messages the recipient returned.
RECURSIVE SendAll(_, _, _, _)
SendAll(h, outband_msgs, delivery_time, draws) ==
    IF outband_msgs = <<>>
    THEN h
    ELSE LET tm == Head(outband_msgs)
             recipient_nodes == RecipientNodes(tm.target, h.nodes_map)
         IN  SendAll(SendMessages(h, recipient_nodes, tm.message,
                                  delivery_time, draws),
                     Tail(outband_msgs), delivery_time, draws)

\* The number of strategy calls a crank makes for outband_msgs.
RECURSIVE NumCalls(_, _)
NumCalls(outband_msgs, table) ==
    IF outband_msgs = <<>> THEN 0
    ELSE Len(RecipientNodes(Head(outband_msgs).target, table))
         + NumCalls(Tail(outband_msgs), table)

DispatchTakesNode(h, entry, outband_msgs, draws) ==
    LET others == DOMAIN h.nodes_map \ {entry.recipient}
        handled ==
            [h EXCEPT !.nodes_map = [id \in others |-> h.nodes_map[id]]]
    IN  SendAll(handled, HandleMessageReturn(outband_msgs),
                entry.delivery_time, draws)

DispatchNotifiesAll(h, entry, outband_msgs, draws) ==
    LET handled ==
            [h EXCEPT !.nodes_map =
                [id \in DOMAIN h.nodes_map |->
                    IF id = entry.recipient
                    THEN NodeHandleMessage(h.nodes_map[id], entry.message.sender,
                                           entry.message.payload, outband_msgs)
                    ELSE [h.nodes_map[id] EXCEPT
                             !.messages_received = Append(@, entry.message)]]]
    IN  SendAll(handled, HandleMessageReturn(outband_msgs),
                entry.delivery_time, draws)

\* TestHarness::crank once entry is popped and its recipient found: the
\* harness after handle_message and the re-scheduling of what it returned.
Dispatch(h, entry, outband_msgs, draws) ==
    LET handled ==
            [h EXCEPT !.nodes_map[entry.recipient] =
                NodeHandleMessage(@, entry.message.sender,
                                  entry.message.payload, outband_msgs)]
    IN  SendAll(handled, HandleMessageReturn(outband_msgs),
                entry.delivery_time, draws)

\* The (recipient, message) pairs of the strategy calls in map_log that were
\* not dropped, as a bag.
NotDropped(map_log) ==
    LET kept == {i \in 1..Len(map_log) : map_log[i].output.kind # "Drop"}
        pair(i) == [recipient |-> map_log[i].node_id,
                    message |-> map_log[i].message]
    IN  [x \in {pair(i) : i \in kept} |->
            Cardinality({i \in kept : pair(i) = x})]

NewNodesMapKeepsFirst(nodes) ==
    [id \in {nodes[i].id : i \in 1..Len(nodes)} |->
        LET first == CHOOSE i \in 1..Len(nodes) :
                         /\ nodes[i].id = id
                         /\ \A j \in 1..Len(nodes) : nodes[j].id = id => i <= j
        IN  nodes[first]]

\* TestHarness::new: the node table collected from the nodes given (a later
\* node replaces an earlier one of the same id), an empty queue.
NewNodesMap(nodes) ==
    [id \in {nodes[i].id : i \in 1..Len(nodes)} |->
        LET last == CHOOSE i \in 1..Len(nodes) :
                        /\ nodes[i].id = id
                        /\ \A j \in 1..Len(nodes) : nodes[j].id = id => j <= i
        IN  nodes[last]]

\* The node sets and the sets of faulty nodes a harness is built with: the
\* nodes 1..n for some n >= 2, node 1 faulty and the others not.
NodeTables == {1..n : n \in 2..MaxNodeId}
FaultySets == {{1}}

Init ==
    /\ \E ids \in NodeTables : \E faulty \in FaultySets :
          nodes_given =
              [i \in 1..Cardinality(ids) |->
                  LET id == SortedKeys(ids)[i]
                  IN  NewNode(id, id \in faulty, NewConsensus("Gossip", id))]
    /\ nodes_map = NewNodesMap(nodes_given)
    /\ msg_queue = EmptyBag
    /\ start_time = 0
    /\ consensus_values = <<1>>
    /\ delivery_time_strategy \in Strategies
    /\ rand = 0
    /\ cranks = 0
    /\ injected = 0
    /\ crank_result = NoResult
    /\ popped = <<>>
    /\ outband = <<>>
    /\ applied = <<>>
    /\ dispatched = <<>>
    /\ accepted = EmptyBag
    /\ injected_messages = {}
    /\ scheduled = <<>>

\* The driver calls schedule_message(delivery_time, recipient, message).
Inject(delivery_time, recipient, message) ==
    /\ injected' = injected + 1
    /\ msg_queue' =
          ScheduleMessage(Harness, delivery_time, recipient, message).msg_queue
    /\ accepted' = accepted (+)
          SetToBag({[recipient |-> recipient, message |-> message]})
    /\ injected_messages' = injected_messages \cup {message}
    /\ scheduled' = <<[delivery_time |-> delivery_time,
                       recipient |-> recipient,
                       message |-> message]>>
    /\ crank_result' = NoResult
    /\ popped' = <<>>
    /\ outband' = <<>>
    /\ applied' = <<>>
    /\ UNCHANGED <<nodes_given, nodes_map, start_time, consensus_values,
                   delivery_time_strategy, rand, cranks, dispatched>>

\* The messages the protocol instances have returned so far.
RECURSIVE SumOver(_, _)
SumOver(f, S) ==
    IF S = {} THEN 0
    ELSE LET x == CHOOSE y \in S : TRUE
         IN  f[x] + SumOver(f, S \ {x})

Produced(table) ==
    SumOver([id \in DOMAIN table |-> Len(table[id].messages_produced)],
            DOMAIN table)

\* The driver calls crank().
Crank ==
    /\ cranks' = cranks + 1
    /\ scheduled' = <<>>
    /\ UNCHANGED <<nodes_given, start_time, consensus_values,
                   delivery_time_strategy, injected, injected_messages>>
    /\ IF QueuePop(msg_queue) = {}
       THEN /\ crank_result' = NoMessages
            /\ popped' = <<>>
            /\ outband' = <<>>
            /\ applied' = <<>>
            /\ UNCHANGED <<nodes_map, msg_queue, rand, dispatched, accepted>>
       ELSE \E entry \in QueuePop(msg_queue) :
            LET taken == [Harness EXCEPT !.msg_queue = QueueRemove(@, entry)]
            IN  /\ popped' = <<entry>>
                /\ dispatched' = Append(dispatched, entry)
                /\ IF entry.recipient \notin DOMAIN nodes_map
                   THEN /\ crank_result' = MissingRecipient(entry.recipient)
                        /\ msg_queue' = taken.msg_queue
                        /\ outband' = <<>>
                        /\ applied' = <<>>
                        /\ UNCHANGED <<nodes_map, rand, accepted>>
                   ELSE \E outband_msgs \in
                            ConsensusOutputs(
                                nodes_map[entry.recipient].consensus,
                                entry.message.sender, entry.message.payload,
                                nodes_map[entry.recipient].is_faulty) :
                        /\ Produced(nodes_map) + Len(outband_msgs) <= MaxProduced
                        /\ \E draws \in [1..NumCalls(outband_msgs, nodes_map) ->
                                            RngDraws(delivery_time_strategy)] :
                           /\ \A i \in DOMAIN draws :
                                 StrategyMap(delivery_time_strategy, draws[i],
                                             ScheduleFrom(entry.delivery_time)
                                            ).instant <= MaxTime
                           /\ LET done == Dispatch(taken, entry, outband_msgs, draws)
                              IN  /\ nodes_map' = done.nodes_map
                                  /\ msg_queue' = done.msg_queue
                                  /\ rand' = done.rand
                                  /\ crank_result' = Ok
                                  /\ outband' = outband_msgs
                                  /\ applied' = done.map_log
                                  /\ accepted' =
                                        accepted (+) NotDropped(done.map_log)

\* The driver makes at most MaxInjected calls of schedule_message and
\* MaxCranks calls of crank, in any order.
Next ==
    \/ /\ injected < MaxInjected
       /\ \E t \in Instants, r \in NodeIds, m \in Messages : Inject(t, r, m)
    \/ /\ cranks < MaxCranks
       /\ Crank

Spec == Init /\ [][Next]_vars

\* The driver that seeds the queue and then only cranks: every call of
\* schedule_message comes before the first call of crank.
NextSeeded ==
    \/ /\ cranks = 0
       /\ injected < MaxInjected
       /\ \E t \in Instants, r \in NodeIds, m \in Messages : Inject(t, r, m)
    \/ /\ cranks < MaxCranks
       /\ Crank

SpecSeeded == Init /\ [][NextSeeded]_vars

(* ------------------- crank called again and again --------------------- *)
\* A run in which crank is called without end has no bound on its delivery
\* times nor on its logs.  Here an Instant of TimeHorizon stands for every
\* Instant at or after TimeHorizon, and the logs of the nodes, which crank
\* only appends to, are not kept; nothing is claimed of an entry whose
\* delivery time is TimeHorizon.
TimeHorizon == MaxTime + 1

AtHorizon(e) ==
    [e EXCEPT !.delivery_time = IF @ > TimeHorizon THEN TimeHorizon ELSE @]

Saturated(q) ==
    [x \in {AtHorizon(e) : e \in BagToSet(q)} |->
        SumOver([e \in BagToSet(q) |->
                    IF AtHorizon(e) = x THEN CopiesIn(e, q) ELSE 0],
                BagToSet(q))]

Forgotten(table) ==
    [id \in DOMAIN table |->
        [table[id] EXCEPT !.messages_received = <<>>,
                          !.messages_produced = <<>>,
                          !.consensus.calls = <<>>]]

\* Nodes 1..n running protocol instances that return a message on every
\* call, under the +1 strategy, which never drops and always answers a later
\* instant.
InitLive ==
    /\ \E ids \in NodeTables : \E faulty \in FaultySets :
          nodes_given =
              [i \in 1..Cardinality(ids) |->
                  LET id == SortedKeys(ids)[i]
                  IN  NewNode(id, id \in faulty, NewConsensus("Gossip", id))]
    /\ nodes_map = NewNodesMap(nodes_given)
    /\ msg_queue = EmptyBag
    /\ start_time = 0
    /\ consensus_values = <<1>>
    /\ delivery_time_strategy = "SmallDelay"
    /\ rand = 0
    /\ cranks = 0
    /\ injected = 0
    /\ crank_result = NoResult
    /\ popped = <<>>
    /\ outband = <<>>
    /\ applied = <<>>
    /\ dispatched = <<>>
    /\ accepted = EmptyBag
    /\ injected_messages = {}
    /\ scheduled = <<>>

\* The driver calls crank(); the protocol instance of the recipient returns
\* one message for a single node.  cranks counts the calls up to MaxCranks.
CrankLive ==
    /\ cranks' = IF cranks < MaxCranks THEN cranks + 1 ELSE cranks
    /\ scheduled' = <<>>
    /\ UNCHANGED <<nodes_given, start_time, consensus_values,
                   delivery_time_strategy, injected, injected_messages,
                   dispatched, accepted>>
    /\ IF QueuePop(msg_queue) = {}
       THEN /\ crank_result' = NoMessages
            /\ popped' = <<>>
            /\ outband' = <<>>
            /\ applied' = <<>>
            /\ UNCHANGED <<nodes_map, msg_queue, rand>>
       ELSE \E entry \in QueuePop(msg_queue) :
            LET taken == [Harness EXCEPT !.msg_queue = QueueRemove(@, entry)]
            IN  /\ popped' = <<entry>>
                /\ IF entry.recipient \notin DOMAIN nodes_map
                   THEN /\ crank_result' = MissingRecipient(entry.recipient)
                        /\ msg_queue' = taken.msg_queue
                        /\ outband' = <<>>
                        /\ applied' = <<>>
                        /\ UNCHANGED <<nodes_map, rand>>
                   ELSE \E outband_msgs \in
                            ConsensusOutputs(
                                nodes_map[entry.recipient].consensus,
                                entry.message.sender, entry.message.payload,
                                nodes_map[entry.recipient].is_faulty) :
                        /\ Len(outband_msgs) = 1
                        /\ outband_msgs[1].target.kind = "SingleNode"
                        /\ \E draws \in [1..NumCalls(outband_msgs, nodes_map) ->
                                            RngDraws(delivery_time_strategy)] :
                           LET done == Dispatch(taken, entry, outband_msgs, draws)
                           IN  /\ nodes_map' = Forgotten(done.nodes_map)
                               /\ msg_queue' = Saturated(done.msg_queue)
                               /\ rand' = done.rand
                               /\ crank_result' = Ok
                               /\ outband' = outband_msgs
                               /\ applied' = done.map_log

\* The driver schedules up to MaxInjected entries and then calls crank
\* without end.
NextLive ==
    \/ /\ cranks = 0
       /\ injected < MaxInjected
       /\ \E t \in Instants, r \in NodeIds, m \in Messages : Inject(t, r, m)
    \/ CrankLive

SpecLive == InitLive /\ [][NextLive]_vars /\ WF_vars(CrankLive)

(* --------------- TestHarness::new with repeated node ids -------------- *)
\* The lists of 2 or 3 nodes with ids 1 and 2, ids repeated or not; the first
\* node of a list is faulty and the others are not.
NodeLists ==
    UNION {{[i \in 1..k |-> NewNode(ids[i], i = 1, NewConsensus("Gossip", ids[i]))] :
               ids \in [1..k -> {1, 2}]} : k \in {2, 3}}

InitDuplicates ==
    /\ nodes_given \in NodeLists
    /\ nodes_map = NewNodesMap(nodes_given)
    /\ msg_queue = EmptyBag
    /\ start_time = 0
    /\ consensus_values = <<1>>
    /\ delivery_time_strategy = "Default"
    /\ rand = 0
    /\ cranks = 0
    /\ injected = 0
    /\ crank_result = NoResult
    /\ popped = <<>>
    /\ outband = <<>>
    /\ applied = <<>>
    /\ dispatched = <<>>
    /\ accepted = EmptyBag
    /\ injected_messages = {}
    /\ scheduled = <<>>

SpecDuplicates == InitDuplicates /\ [][Next]_vars

(* ------------- the test messages_are_delivered_in_order --------------- *)
\* let messages_num = 10.
messages_num == 10

\* One node, id 1, not faulty, running NoOpConsensus; SmallDelay; no messages.
InitOrdering ==
    /\ nodes_given = <<NewNode(1, FALSE, NewConsensus("NoOp", 1))>>
    /\ nodes_map = NewNodesMap(nodes_given)
    /\ msg_queue = EmptyBag
    /\ start_time = 0
    /\ consensus_values = <<>>
    /\ delivery_time_strategy = "SmallDelay"
    /\ rand = 0
    /\ cranks = 0
    /\ injected = 0
    /\ crank_result = NoResult
    /\ popped = <<>>
    /\ outband = <<>>
    /\ applied = <<>>
    /\ dispatched = <<>>
    /\ accepted = EmptyBag
    /\ injected_messages = {}
    /\ scheduled = <<>>

\* The message the test schedules for i: payload i from node 1 to node 1 at
\* Instant(messages_num - i).
OrderingEntry(i) == QueueEntry(messages_num - i, 1, Message(1, i))

\* The test schedules the messages for i in 0..messages_num-1 (here in any
\* order), then calls crank until it fails; the run goes on for one more call.
NextOrdering ==
    \/ /\ cranks = 0
       /\ \E i \in 0..(messages_num - 1) :
             /\ ~BagIn(OrderingEntry(i), msg_queue)
             /\ Inject(messages_num - i, 1, Message(1, i))
    \/ /\ injected = messages_num
       /\ cranks <= messages_num + 1
       /\ Crank

SpecOrdering == InitOrdering /\ [][NextOrdering]_vars

(* ------------------------------ claims -------------------------------- *)
\* A step that is one call of crank.
CrankStep == cranks' = cranks + 1

\* A step that is one call of schedule_message by the driver.
InjectStep == injected' = injected + 1

\* e is lowest in q under the QueueEntry order: no entry of q is Less than e.
Lowest(e, q) == \A f \in BagToSet(q) : EntryCmp(f, e) # Less

\* C1: every crank on a non-empty queue dispatches the entry that is lowest
\* under the QueueEntry order (delivery_time, then recipient, then payload)
\* among the entries in the queue: no strictly lower entry remains.
C1_CrankPopsLowest ==
    [][(CrankStep /\ msg_queue # EmptyBag) =>
          (popped' # <<>> /\ Lowest(popped'[1], msg_queue))]_vars

\* No protocol instance has returned a message so far.
Quiet == Produced(nodes_map) = 0

\* The entries of q have pairwise distinct delivery times.
DistinctTimes(q) ==
    /\ \A e \in BagToSet(q) : CopiesIn(e, q) = 1
    /\ \A e, f \in BagToSet(q) : e # f => e.delivery_time # f.delivery_time

\* Two successive cranks, the first of which popped an entry, and the second
\* of which pops one: with no protocol output both were in the queue before.
SuccessiveDispatch == CrankStep /\ popped # <<>> /\ popped' # <<>> /\ Quiet'

\* C2: entries with pairwise distinct delivery times, pushed with
\* schedule_message in any order, all recipients present, no protocol output:
\* successive cranks deliver them in non-decreasing delivery_time order.
C2_NonDecreasingTimes ==
    [][(/\ SuccessiveDispatch
        /\ DistinctTimes(msg_queue (+) SetToBag({popped[1]}))
        /\ \A e \in BagToSet(msg_queue) \cup {popped[1]} :
              e.recipient \in DOMAIN nodes_map)
       => popped[1].delivery_time <= popped'[1].delivery_time]_vars

\* C3: entries that share a delivery time are delivered by successive cranks
\* in ascending (recipient, payload) order: lower recipient first, and for
\* equal recipient lower payload first.
C3_TieBreakAscending ==
    [][(/\ SuccessiveDispatch
        /\ crank_result = Ok /\ crank_result' = Ok
        /\ popped[1].delivery_time = popped'[1].delivery_time)
       => \/ popped[1].recipient < popped'[1].recipient
          \/ /\ popped[1].recipient = popped'[1].recipient
             /\ popped[1].message.payload <= popped'[1].message.payload]_vars

\* C4: one non-faulty node, NoOpConsensus, payload i scheduled at time 10 - i
\* for i in 0..9: the k-th crank succeeds and delivers payload k - 1, and the
\* 11th crank returns NoMessages.
C4_OrderingScenario ==
    LET received == nodes_map[1].messages_received
    IN  /\ Len(received) = (IF cranks <= messages_num THEN cranks ELSE messages_num)
        /\ \A k \in 1..Len(received) : received[k] = Message(1, k - 1)
        /\ (cranks >= 1 /\ cranks <= messages_num) => crank_result = Ok
        /\ cranks > messages_num => crank_result = NoMessages

C4_Witness ==
    /\ cranks = messages_num + 1
    /\ crank_result = NoMessages
    /\ Len(nodes_map[1].messages_received) = messages_num

\* The number of records of log equal to x.
Count(log, x) == Cardinality({i \in 1..Len(log) : log[i] = x})

\* The entries of q for recipient r that carry message m.
Queued(q, r, m) ==
    SumOver([e \in BagToSet(q) |->
                IF e.recipient = r /\ e.message = m THEN CopiesIn(e, q) ELSE 0],
            BagToSet(q))

\* C6: a (message, recipient) pair whose schedule the strategy resolves to Drop
\* gets no queue entry and is never delivered: for every recipient and message,
\* the entries queued plus the deliveries made never exceed the schedulings of
\* that message to that recipient that were not dropped.
C6_DropCorrectness ==
    \A r \in NodeIds : \A m \in [sender : NodeIds, payload : Payloads] :
        Queued(msg_queue, r, m)
        + (IF r \in DOMAIN nodes_map
           THEN Count(nodes_map[r].messages_received, m) ELSE 0)
        <= CopiesIn([recipient |-> r, message |-> m], accepted)

\* A strategy call of an earlier crank resolved to Drop (fewer schedulings
\* survived than were made), and a later crank has delivered a message.
C6_Witness ==
    /\ delivery_time_strategy = "Lossy"
    /\ BagCardinality(accepted) < injected + rand
    /\ cranks = MaxCranks
    /\ crank_result = Ok
    /\ applied = <<>>

\* C7: when the entry popped by crank names a NodeId that is not in the node
\* table, crank returns MissingRecipient(that id), the entry is removed and
\* not re-queued, and every other queue entry, every node and the rng are
\* unchanged; with nodes {1,2} and a single entry for node 3 it returns
\* MissingRecipient(3).
C7_MissingRecipient ==
    [][/\ (CrankStep /\ popped' # <<>>
              /\ popped'[1].recipient \notin DOMAIN nodes_map)
          => /\ crank_result' =
                   [kind |-> "MissingRecipient", id |-> popped'[1].recipient]
             /\ BagIn(popped'[1], msg_queue)
             /\ msg_queue' (+) SetToBag({popped'[1]}) = msg_queue
             /\ nodes_map' = nodes_map
             /\ rand' = rand
             /\ applied' = <<>>
       /\ (CrankStep /\ DOMAIN nodes_map = {1, 2}
              /\ BagCardinality(msg_queue) = 1
              /\ \A e \in BagToSet(msg_queue) : e.recipient = 3)
          => /\ crank_result' = [kind |-> "MissingRecipient", id |-> 3]
             /\ msg_queue' = EmptyBag]_vars

C7_Witness ==
    /\ DOMAIN nodes_map = {1, 2}
    /\ crank_result = [kind |-> "MissingRecipient", id |-> 3]
    /\ injected = 1
    /\ msg_queue = EmptyBag

\* C8: crank on an empty queue returns NoMessages, leaves the queue empty and
\* every node and the rng unchanged, and makes no strategy call; so does every
\* repetition.
C8_EmptyQueue ==
    [][(CrankStep /\ msg_queue = EmptyBag)
       => /\ crank_result'.kind = "NoMessages"
          /\ msg_queue' = EmptyBag
          /\ nodes_map' = nodes_map
          /\ rand' = rand
          /\ applied' = <<>>
          /\ popped' = <<>>]_vars

\* Two cranks in a row on the empty queue of a new harness.
C8_Witness ==
    /\ cranks = 2
    /\ injected = 0
    /\ crank_result.kind = "NoMessages"
    /\ msg_queue = EmptyBag
    /\ dispatched = <<>>

\* The entries (T + 1, id, message), one for each id of the node table.
BroadcastEntries(T, message, table) ==
    SetToBag({[delivery_time |-> T + 1, recipient |-> id, message |-> message] :
                 id \in DOMAIN table})

\* C9: 3 nodes, a strategy that adds +1 and never drops: a crank that
\* dispatches an entry of delivery time T to a node whose protocol returns one
\* message with target All adds exactly 3 queue entries, one per node of the
\* table, each carrying that message, each scheduled at T + 1.
C9_BroadcastWithDelay ==
    [][(/\ CrankStep
        /\ Cardinality(DOMAIN nodes_map) = 3
        /\ delivery_time_strategy = "SmallDelay"
        /\ crank_result'.kind = "Ok"
        /\ Len(outband') = 1
        /\ outband'[1].target.kind = "All")
       => /\ BagCardinality(msg_queue') = BagCardinality(msg_queue) - 1 + 3
          /\ msg_queue' (+) SetToBag({popped'[1]}) =
                msg_queue (+) BroadcastEntries(popped'[1].delivery_time,
                                               outband'[1].message, nodes_map)]_vars

C9_Witness ==
    /\ Cardinality(DOMAIN nodes_map) = 3
    /\ delivery_time_strategy = "SmallDelay"
    /\ crank_result.kind = "Ok"
    /\ Len(outband) = 1
    /\ outband[1].target.kind = "All"
    /\ BagCardinality(msg_queue) >= 3

\* The (message, recipient) pairs outband_msgs resolves to against the node
\* ids in keys, in order.
RECURSIVE ResolvedPairs(_, _)
ResolvedPairs(outband_msgs, keys) ==
    IF outband_msgs = <<>> THEN <<>>
    ELSE LET tm == Head(outband_msgs)
             to == IF tm.target.kind = "All"
                   THEN SortedKeys(keys) ELSE <<tm.target.id>>
         IN  [i \in 1..Len(to) |-> [message |-> tm.message, node_id |-> to[i]]]
             \o ResolvedPairs(Tail(outband_msgs), keys)

\* The entries (t, r, message) of the strategy calls that returned AtInstant(t).
Rescheduled(calls) ==
    LET kept == {i \in 1..Len(calls) : calls[i].output.kind = "AtInstant"}
        entry(i) == [delivery_time |-> calls[i].output.instant,
                     recipient |-> calls[i].node_id,
                     message |-> calls[i].message]
    IN  [x \in {entry(i) : i \in kept} |->
            Cardinality({i \in kept : entry(i) = x})]

\* C10: a successful crank removes exactly one entry (delivery time T) and
\* applies the strategy to AtInstant(T) once for every outbound message and
\* every recipient it resolves to; the queue afterwards is the queue before,
\* minus the popped entry, plus one entry (t, r, message) for each call that
\* returned AtInstant(t), and nothing for each that returned Drop.
C10_Rescheduling ==
    [][(CrankStep /\ crank_result'.kind = "Ok")
       => LET pairs == ResolvedPairs(outband', DOMAIN nodes_map)
          IN  /\ Len(popped') = 1
              /\ BagIn(popped'[1], msg_queue)
              /\ Len(applied') = Len(pairs)
              /\ \A i \in 1..Len(pairs) :
                    /\ applied'[i].message = pairs[i].message
                    /\ applied'[i].node_id = pairs[i].node_id
                    /\ applied'[i].input =
                          [kind |-> "AtInstant",
                           instant |-> popped'[1].delivery_time]
              /\ msg_queue' (+) SetToBag({popped'[1]}) =
                    msg_queue (+) Rescheduled(applied')]_vars

\* A crank whose strategy calls dropped one delivery and kept another.
C10_Witness ==
    /\ crank_result.kind = "Ok"
    /\ \E i, j \in 1..Len(applied) :
          /\ applied[i].output.kind = "Drop"
          /\ applied[j].output.kind = "AtInstant"
          /\ BagIn([delivery_time |-> applied[j].output.instant,
                    recipient |-> applied[j].node_id,
                    message |-> applied[j].message], msg_queue)

\* The strategy calls in calls are, message by message of outband_msgs: one
\* call for the id of a SingleNode target, and for an All target one call for
\* each node id in keys and no other.
RECURSIVE ResolvesExactly(_, _, _)
ResolvesExactly(calls, outband_msgs, keys) ==
    IF outband_msgs = <<>>
    THEN calls = <<>>
    ELSE LET tm == Head(outband_msgs)
             to == IF tm.target.kind = "All" THEN keys ELSE {tm.target.id}
             n == Cardinality(to)
         IN  /\ Len(calls) >= n
             /\ \A i \in 1..n : calls[i].message = tm.message
             /\ {calls[i].node_id : i \in 1..n} = to
             /\ ResolvesExactly(SubSeq(calls, n + 1, Len(calls)),
                                Tail(outband_msgs), keys)

\* C11: an outbound message with target SingleNode(id) is scheduled for
\* exactly the one recipient id, and one with target All for exactly the key
\* set of the node table, each node id once, the producing node included.
C11_TargetResolution ==
    [][(CrankStep /\ crank_result'.kind = "Ok")
       => /\ ResolvesExactly(applied', outband', DOMAIN nodes_map)
          /\ \A k \in 1..Len(outband') :
                outband'[k].target.kind = "All" =>
                   \E i \in 1..Len(applied') :
                      /\ applied'[i].node_id = popped'[1].recipient
                      /\ applied'[i].message = outband'[k].message]_vars

\* A broadcast that reached its producer, in a table of 3 nodes.
C11_Witness ==
    /\ crank_result.kind = "Ok"
    /\ Len(outband) = 1
    /\ outband[1].target.kind = "All"
    /\ Cardinality(DOMAIN nodes_map) = 3
    /\ Len(applied) = 3
    /\ \E i \in 1..3 : applied[i].node_id = popped[1].recipient

\* C12: Node::handle_message(sender, payload) appends exactly one record
\* (sender, payload) to messages_received, calls the protocol instance exactly
\* once with that sender, payload and the node's is_faulty, appends the message
\* of every returned TargetedMessage to messages_produced in the returned
\* order, and returns the protocol's list unchanged.
C12_HandleMessage ==
    [][(CrankStep /\ crank_result'.kind = "Ok")
       => LET r == popped'[1].recipient
              before == nodes_map[r]
              after == nodes_map'[r]
              calls == after.consensus.calls
              call == calls[Len(calls)]
          IN  /\ after.messages_received =
                    Append(before.messages_received, popped'[1].message)
              /\ Len(calls) = Len(before.consensus.calls) + 1
              /\ SubSeq(calls, 1, Len(calls) - 1) = before.consensus.calls
              /\ call.sender = popped'[1].message.sender
              /\ call.m = popped'[1].message.payload
              /\ call.is_faulty = before.is_faulty
              /\ after.messages_produced =
                    before.messages_produced
                    \o [i \in 1..Len(call.returned) |-> call.returned[i].message]
              /\ outband' = call.returned
              /\ ResolvedPairs(call.returned, DOMAIN nodes_map) =
                    [i \in 1..Len(applied') |->
                        [message |-> applied'[i].message,
                         node_id |-> applied'[i].node_id]]]_vars

\* A dispatch whose protocol call returned a message.
C12_Witness ==
    /\ crank_result.kind = "Ok"
    /\ Len(outband) >= 1
    /\ LET node == nodes_map[popped[1].recipient]
       IN  /\ node.messages_produced # <<>>
           /\ node.messages_received # <<>>
           /\ node.consensus.calls # <<>>

\* log is a prefix of longer.
IsPrefix(log, longer) ==
    /\ Len(log) <= Len(longer)
    /\ SubSeq(longer, 1, Len(log)) = log

\* C13: messages_received, messages_produced and finalized_values of every
\* node only grow by appending: each log before an operation is a prefix of
\* the same log after it.
C13_AppendOnlyLogs ==
    [][\A id \in DOMAIN nodes_map :
          /\ id \in DOMAIN nodes_map'
          /\ IsPrefix(nodes_map[id].messages_received,
                      nodes_map'[id].messages_received)
          /\ IsPrefix(nodes_map[id].messages_produced,
                      nodes_map'[id].messages_produced)
          /\ IsPrefix(nodes_map[id].finalized_values,
                      nodes_map'[id].finalized_values)]_vars

\* A node that received two different messages in two cranks and produced one.
C13_Witness ==
    \E id \in DOMAIN nodes_map :
        /\ Len(nodes_map[id].messages_received) = 2
        /\ nodes_map[id].messages_received[1] # nodes_map[id].messages_received[2]
        /\ Len(nodes_map[id].messages_produced) = 1

\* C14: the is_faulty flag of a node never changes, and every call of the
\* protocol instance of a node is made with the is_faulty flag of that node.
C14_FaultinessPassThrough ==
    [][\A id \in DOMAIN nodes_map :
          /\ nodes_map'[id].is_faulty = nodes_map[id].is_faulty
          /\ \A k \in 1..Len(nodes_map'[id].consensus.calls) :
                nodes_map'[id].consensus.calls[k].is_faulty
                   = nodes_map[id].is_faulty]_vars

\* The protocol instances of a faulty node and of a node that is not faulty
\* have both been called.
C14_Witness ==
    \E id, other \in DOMAIN nodes_map :
        /\ nodes_map[id].is_faulty
        /\ ~nodes_map[other].is_faulty
        /\ nodes_map[id].consensus.calls # <<>>
        /\ nodes_map[other].consensus.calls # <<>>

\* The messages the protocol instances of table have returned so far.
Returned(table) ==
    UNION {UNION {{call.returned[j].message : j \in 1..Len(call.returned)} :
                  call \in {table[id].consensus.calls[k] :
                               k \in 1..Len(table[id].consensus.calls)}} :
           id \in DOMAIN table}

\* C15: the (sender, payload) of every record in a messages_received log is
\* that of a message handed to schedule_message by the driver or of a message
\* returned by a protocol instance earlier.
C15_ContentUnaltered ==
    \A id \in DOMAIN nodes_map :
        \A i \in 1..Len(nodes_map[id].messages_received) :
            nodes_map[id].messages_received[i]
                \in injected_messages \cup Returned(nodes_map)

\* A node has received a message that the driver never scheduled: it was
\* returned by a protocol instance.
C15_Witness ==
    \E id \in DOMAIN nodes_map :
        \E i \in 1..Len(nodes_map[id].messages_received) :
            /\ nodes_map[id].messages_received[i] \notin injected_messages
            /\ nodes_map[id].messages_received[i] \in Returned(nodes_map)

\* C16: the key set of the node table is fixed at construction: no operation
\* adds or removes a node.
C16_FixedMembership ==
    [][DOMAIN nodes_map' = DOMAIN nodes_map]_vars

\* Two cranks on a table of 2 nodes: one dispatched to a node, the last found
\* no node for its recipient.
C16_Witness ==
    /\ cranks = 2
    /\ DOMAIN nodes_map = {1, 2}
    /\ crank_result.kind = "MissingRecipient"
    /\ \E id \in DOMAIN nodes_map : nodes_map[id].messages_received # <<>>

\* The entries popped so far whose recipient is not in table: the cranks that
\* returned MissingRecipient.
MissingRecipientCranks(table) ==
    Cardinality({i \in 1..Len(dispatched) :
                    dispatched[i].recipient \notin DOMAIN table})

\* The total length of the messages_received logs of table.
Received(table) ==
    SumOver([id \in DOMAIN table |-> Len(table[id].messages_received)],
            DOMAIN table)

\* C17: every queue entry is consumed exactly once: the number of entries
\* pushed so far, by schedule_message or by the re-scheduling of crank, is the
\* length of the queue plus the total length of the messages_received logs
\* plus the number of cranks that returned MissingRecipient.
C17_ConsumedOnce ==
    BagCardinality(accepted) =
        BagCardinality(msg_queue) + Received(nodes_map)
        + MissingRecipientCranks(nodes_map)

\* Entries are still queued, a message was delivered and a crank returned
\* MissingRecipient.
C17_Witness ==
    /\ BagCardinality(msg_queue) >= 1
    /\ Received(nodes_map) >= 1
    /\ MissingRecipientCranks(nodes_map) >= 1

\* The entries that are in the queue or were popped from it.
Seen == BagToSet(msg_queue) \cup {dispatched[i] : i \in 1..Len(dispatched)}

\* C18: no deduplication: when the k entries scheduled are identical in
\* delivery time, recipient and message (and no protocol output was
\* scheduled), the queue holds k of them less the ones popped, and with the
\* recipient in the table every crank so far has delivered that message to
\* it: k cranks deliver it k times.
C18_NoDeduplication ==
    \A e \in Seen :
        (/\ Seen = {e}
         /\ Quiet
         /\ injected >= 2)
        => /\ CopiesIn(e, msg_queue) + Len(dispatched) = injected
           /\ e.recipient \in DOMAIN nodes_map =>
                 /\ Len(nodes_map[e.recipient].messages_received)
                       = Len(dispatched)
                 /\ Count(nodes_map[e.recipient].messages_received, e.message)
                       = Len(dispatched)

\* Two identical entries were scheduled and two cranks delivered both.
C18_Witness ==
    /\ injected = 2
    /\ Len(dispatched) = 2
    /\ dispatched[1] = dispatched[2]
    /\ msg_queue = EmptyBag
    /\ dispatched[1].recipient \in DOMAIN nodes_map
    /\ Count(nodes_map[dispatched[1].recipient].messages_received,
             dispatched[1].message) = 2

\* C19: every call of crank returns exactly one of three results: NoMessages
\* if and only if the queue was empty; MissingRecipient(r) if and only if the
\* queue was not empty and the recipient r of the entry popped is not in the
\* node table; Ok otherwise, and then the recipient has received the message.
C19_CrankOutcomes ==
    [][CrankStep
       => /\ crank_result'.kind \in {"NoMessages", "MissingRecipient", "Ok"}
          /\ crank_result'.kind = "NoMessages" <=> msg_queue = EmptyBag
          /\ msg_queue # EmptyBag
                => /\ Len(popped') = 1
                   /\ BagIn(popped'[1], msg_queue)
          /\ crank_result'.kind = "MissingRecipient"
                <=> /\ msg_queue # EmptyBag
                    /\ popped'[1].recipient \notin DOMAIN nodes_map
          /\ crank_result'.kind = "MissingRecipient"
                => crank_result'.id = popped'[1].recipient
          /\ crank_result'.kind = "Ok"
                <=> /\ msg_queue # EmptyBag
                    /\ popped'[1].recipient \in DOMAIN nodes_map
          /\ crank_result'.kind = "Ok"
                => Received(nodes_map') = Received(nodes_map) + 1]_vars

\* A crank returned MissingRecipient and the next one Ok.
C19_Witness ==
    /\ cranks = 2
    /\ Len(dispatched) = 2
    /\ dispatched[1].recipient \notin DOMAIN nodes_map
    /\ crank_result.kind = "Ok"

\* The entries (T, node_id, message) of the strategy calls in calls.
AtPoppedTime(calls, T) ==
    LET entry(i) == [delivery_time |-> T,
                     recipient |-> calls[i].node_id,
                     message |-> calls[i].message]
    IN  [x \in {entry(i) : i \in 1..Len(calls)} |->
            Cardinality({i \in 1..Len(calls) : entry(i) = x})]

\* C20: the default Strategy::map returns its input unchanged and an Instant
\* converts to AtInstant of it: under the default strategy every strategy
\* call of a crank gets and returns AtInstant(T), T the delivery time of the
\* entry popped, nothing is dropped, and every entry the crank schedules has
\* delivery time T.
C20_IdentityStrategy ==
    [][(/\ CrankStep
        /\ delivery_time_strategy = "Default"
        /\ crank_result'.kind = "Ok")
       => LET T == popped'[1].delivery_time
          IN  /\ \A i \in 1..Len(applied') :
                    /\ applied'[i].input = [kind |-> "AtInstant", instant |-> T]
                    /\ applied'[i].output = applied'[i].input
              /\ Len(applied') =
                    Len(ResolvedPairs(outband', DOMAIN nodes_map))
              /\ msg_queue' (+) SetToBag({popped'[1]}) =
                    msg_queue (+) AtPoppedTime(applied', T)]_vars

\* Under the default strategy a crank has scheduled a broadcast, at the
\* delivery time of the entry it popped.
C20_Witness ==
    /\ delivery_time_strategy = "Default"
    /\ crank_result.kind = "Ok"
    /\ Len(applied) >= 2
    /\ \A i \in 1..Len(applied) :
          BagIn([delivery_time |-> popped[1].delivery_time,
                 recipient |-> applied[i].node_id,
                 message |-> applied[i].message], msg_queue)

\* C21: schedule_message(time, recipient, message) adds exactly the one
\* entry (time, recipient, message) to the queue, whether or not recipient is
\* in the node table, without a call of the strategy or a draw from the rng,
\* and leaves every node and every entry already queued as it was.
C21_ScheduleMessageFrame ==
    [][InjectStep
       => /\ Len(scheduled') = 1
          /\ msg_queue' =
                msg_queue (+) SetToBag({[delivery_time |-> scheduled'[1].delivery_time,
                                         recipient |-> scheduled'[1].recipient,
                                         message |-> scheduled'[1].message]})
          /\ BagCardinality(msg_queue') = BagCardinality(msg_queue) + 1
          /\ applied' = <<>>
          /\ rand' = rand
          /\ nodes_map' = nodes_map]_vars

\* Under the strategy that drops and delays, an entry for a recipient that is
\* not in the node table was scheduled at Instant(0), next to an entry queued
\* before, and both are in the queue.
C21_Witness ==
    /\ delivery_time_strategy = "Lossy"
    /\ Len(scheduled) = 1
    /\ scheduled[1].recipient \notin DOMAIN nodes_map
    /\ scheduled[1].delivery_time = 0
    /\ BagIn(scheduled[1], msg_queue)
    /\ BagCardinality(msg_queue) = 2

\* C22: a finite simulation ends: with protocol instances that return no
\* output and N = messages_num entries scheduled, all for a node of the
\* table, the first N calls of crank return Ok, each delivering one message,
\* every later call returns NoMessages, and the deliveries never exceed N.
C22_Termination ==
    [][CrankStep
       => /\ cranks < messages_num =>
                /\ crank_result'.kind = "Ok"
                /\ Received(nodes_map') = cranks + 1
          /\ cranks >= messages_num =>
                /\ crank_result'.kind = "NoMessages"
                /\ Received(nodes_map') = messages_num
          /\ Received(nodes_map') <= injected]_vars

\* Two calls of crank after the N that succeeded: both found the queue empty.
C22_Witness ==
    /\ cranks = messages_num + 2
    /\ crank_result.kind = "NoMessages"
    /\ Len(dispatched) = messages_num
    /\ Received(nodes_map) = messages_num
    /\ \A i \in 1..Len(dispatched) : dispatched[i].recipient \in DOMAIN nodes_map

\* The entries a crank step has pushed: what the queue holds after the step
\* beyond what was left of it once the entry was popped.
Pushed == msg_queue' (-) (msg_queue (-) SetToBag({popped'[1]}))

\* C23: none of the strategies returns an instant earlier than its input, and
\* every entry a crank pushes has a delivery time not earlier than that of
\* the entry the crank popped; under the +1 strategy it is that delivery time
\* plus 1. start_time is never changed.
C23_CausalTime ==
    [][(CrankStep /\ crank_result'.kind = "Ok")
       => LET T == popped'[1].delivery_time
          IN  /\ \A i \in 1..Len(applied') :
                    applied'[i].output.kind = "AtInstant"
                       => applied'[i].output.instant >= applied'[i].input.instant
              /\ \A e \in BagToSet(Pushed) :
                    /\ e.delivery_time >= T
                    /\ delivery_time_strategy = "SmallDelay"
                          => e.delivery_time = T + 1
              /\ start_time' = start_time]_vars

\* A crank under the +1 strategy has pushed an entry one instant after the
\* entry it popped.
C23_Witness ==
    /\ crank_result.kind = "Ok"
    /\ delivery_time_strategy = "SmallDelay"
    /\ Len(applied) >= 1
    /\ BagIn([delivery_time |-> popped[1].delivery_time + 1,
              recipient |-> applied[1].node_id,
              message |-> applied[1].message], msg_queue)

\* C24: in a run where every entry is injected before the first crank, with
\* protocol instances that may return output and a strategy that never
\* answers an instant before its input, the delivery times of the entries
\* that successive cranks pop never decrease.
C24_TimeMonotonicity ==
    \A i, j \in 1..Len(dispatched) :
        (/\ i < j
         /\ dispatched[i].recipient \in DOMAIN nodes_map
         /\ dispatched[j].recipient \in DOMAIN nodes_map)
        => dispatched[i].delivery_time <= dispatched[j].delivery_time

\* C25: a successful crank touches only the recipient node of the entry it
\* popped: that node's messages_received grows by the one record (sender,
\* payload) of the entry, and every other node, with its three logs and the
\* state of its protocol instance, is unchanged.
C25_CrankFrame ==
    [][(CrankStep /\ crank_result'.kind = "Ok")
       => LET r == popped'[1].recipient
          IN  /\ r \in DOMAIN nodes_map
              /\ nodes_map'[r].messages_received =
                    Append(nodes_map[r].messages_received,
                           [sender |-> popped'[1].message.sender,
                            payload |-> popped'[1].message.payload])
              /\ nodes_map'[r].finalized_values = nodes_map[r].finalized_values
              /\ \A id \in DOMAIN nodes_map \ {r} :
                    /\ nodes_map'[id].messages_received
                          = nodes_map[id].messages_received
                    /\ nodes_map'[id].messages_produced
                          = nodes_map[id].messages_produced
                    /\ nodes_map'[id].finalized_values
                          = nodes_map[id].finalized_values
                    /\ nodes_map'[id].consensus = nodes_map[id].consensus
                    /\ nodes_map'[id] = nodes_map[id]]_vars

\* In a table of 3 nodes a crank delivered to one node, whose protocol
\* instance broadcast a message; the two other nodes have empty logs.
C25_Witness ==
    /\ crank_result.kind = "Ok"
    /\ Cardinality(DOMAIN nodes_map) = 3
    /\ Len(outband) = 1
    /\ outband[1].target.kind = "All"
    /\ Len(nodes_map[popped[1].recipient].messages_received) = 1
    /\ \A id \in DOMAIN nodes_map \ {popped[1].recipient} :
          /\ nodes_map[id].messages_received = <<>>
          /\ nodes_map[id].consensus.calls = <<>>

\* C26: a crank applies the strategy once for every (outbound message,
\* resolved recipient) pair, dropped or not, in the order the protocol
\* returned the messages and by ascending NodeId within a broadcast, drawing
\* from the rng once per call; schedule_message, a crank that returns
\* NoMessages or MissingRecipient, and a crank whose protocol call returns
\* nothing apply no strategy and leave the rng as it was.
C26_RngConsumption ==
    [][/\ (CrankStep /\ crank_result'.kind = "Ok")
          => LET pairs == ResolvedPairs(outband', DOMAIN nodes_map)
             IN  /\ Len(applied') = Len(pairs)
                 /\ \A i \in 1..Len(pairs) :
                       /\ applied'[i].message = pairs[i].message
                       /\ applied'[i].node_id = pairs[i].node_id
                 /\ (Len(outband') = 1 /\ outband'[1].target.kind = "All")
                       => \A i, j \in 1..Len(applied') :
                             i < j => applied'[i].node_id < applied'[j].node_id
                 /\ rand' = IF delivery_time_strategy = "Lossy"
                            THEN rand + Len(applied') ELSE rand
       /\ (\/ InjectStep
           \/ CrankStep /\ crank_result'.kind \in {"NoMessages", "MissingRecipient"}
           \/ CrankStep /\ outband' = <<>>)
          => /\ applied' = <<>>
             /\ rand' = rand]_vars

\* A broadcast over 3 nodes under the strategy that draws from the rng: three
\* calls were made, though one delivery was dropped.
C26_Witness ==
    /\ crank_result.kind = "Ok"
    /\ delivery_time_strategy = "Lossy"
    /\ Len(outband) = 1
    /\ outband[1].target.kind = "All"
    /\ Len(applied) = 3
    /\ rand = 3
    /\ applied[2].output.kind = "Drop"
    /\ applied[3].output.kind = "AtInstant"

\* The TargetedMessages the protocol instances of table have returned so far.
ReturnedTargeted(table) ==
    UNION {UNION {{call.returned[j] : j \in 1..Len(call.returned)} :
                  call \in {table[id].consensus.calls[k] :
                               k \in 1..Len(table[id].consensus.calls)}} :
           id \in DOMAIN table}

\* C27: a protocol instance returns a message for SingleNode(id) with id not
\* in the node table: the crank that processes it returns Ok and, for every
\* strategy call that was not dropped, queues an entry addressed to id;
\* MissingRecipient(id) is only returned by a crank that pops an entry
\* addressed to id.
C27_DeferredMissingRecipient ==
    [][CrankStep
       => /\ (/\ msg_queue # EmptyBag
              /\ popped'[1].recipient \in DOMAIN nodes_map)
             => /\ crank_result'.kind = "Ok"
                /\ \A i \in 1..Len(applied') :
                      (/\ applied'[i].node_id \notin DOMAIN nodes_map
                       /\ applied'[i].output.kind = "AtInstant")
                      => BagIn([delivery_time |-> applied'[i].output.instant,
                                recipient |-> applied'[i].node_id,
                                message |-> applied'[i].message], msg_queue')
                /\ \A k \in 1..Len(outband') :
                      (/\ outband'[k].target.kind = "SingleNode"
                       /\ outband'[k].target.id \notin DOMAIN nodes_map)
                      => \E i \in 1..Len(applied') :
                            /\ applied'[i].node_id = outband'[k].target.id
                            /\ applied'[i].message = outband'[k].message
          /\ crank_result'.kind = "MissingRecipient"
                => /\ BagIn(popped'[1], msg_queue)
                   /\ popped'[1].recipient = crank_result'.id
                   /\ crank_result'.id \notin DOMAIN nodes_map]_vars

\* The one entry injected was for a node of the table; its protocol instance
\* returned a message for NodeId(3), not in the table; the second crank popped
\* that entry and returned MissingRecipient(3).
C27_Witness ==
    /\ injected = 1
    /\ cranks = 2
    /\ Len(dispatched) = 2
    /\ dispatched[1].recipient \in DOMAIN nodes_map
    /\ \E tm \in ReturnedTargeted(nodes_map) :
          /\ tm.target.kind = "SingleNode"
          /\ tm.target.id = dispatched[2].recipient
          /\ tm.message = dispatched[2].message
    /\ crank_result.kind = "MissingRecipient"
    /\ crank_result.id = dispatched[2].recipient

\* C28: every entry queued for a Target::All names a node of the table, so
\* popping it never returns MissingRecipient; an entry whose pop returns
\* MissingRecipient carries a message that was injected with schedule_message
\* or returned by a protocol instance with target SingleNode of its recipient.
C28_BroadcastDeliverable ==
    [][CrankStep
       => /\ (/\ crank_result'.kind = "Ok"
              /\ \A k \in 1..Len(outband') : outband'[k].target.kind = "All")
             => \A i \in 1..Len(applied') :
                   /\ applied'[i].node_id \in DOMAIN nodes_map'
                   /\ \A e \in BagToSet(Pushed) :
                         e.recipient \in DOMAIN nodes_map'
          /\ crank_result'.kind = "MissingRecipient"
             => \/ popped'[1].message \in injected_messages
                \/ \E tm \in ReturnedTargeted(nodes_map) :
                      /\ tm.message = popped'[1].message
                      /\ tm.target.kind = "SingleNode"
                      /\ tm.target.id = popped'[1].recipient]_vars

\* In a table of 2 nodes a crank has queued the two entries of a broadcast,
\* for the nodes 1 and 2.
C28_Witness ==
    /\ crank_result.kind = "Ok"
    /\ DOMAIN nodes_map = {1, 2}
    /\ Len(outband) = 1
    /\ outband[1].target.kind = "All"
    /\ Len(applied) = 2
    /\ \A i \in 1..2 :
          /\ applied[i].output.kind = "AtInstant"
          /\ BagIn([delivery_time |-> applied[i].output.instant,
                    recipient |-> applied[i].node_id,
                    message |-> applied[i].message], msg_queue)

\* C29: messages_produced counts what the protocol returned, not deliveries:
\* a dispatch whose protocol call returns k TargetedMessages appends k
\* records to the recipient's messages_produced, whatever the targets and
\* however many of the resulting deliveries the strategy drops.
C29_ProducedCountsOutputs ==
    [][(CrankStep /\ crank_result'.kind = "Ok")
       => LET r == popped'[1].recipient
          IN  /\ Len(nodes_map'[r].messages_produced)
                    = Len(nodes_map[r].messages_produced) + Len(outband')
              /\ \A k \in 1..Len(outband') :
                    nodes_map'[r].messages_produced[
                        Len(nodes_map[r].messages_produced) + k]
                       = outband'[k].message
              /\ Produced(nodes_map') = Produced(nodes_map) + Len(outband')]_vars

\* A broadcast over 3 nodes, one delivery dropped and two queued, has added
\* one record to messages_produced.
C29_Witness ==
    /\ crank_result.kind = "Ok"
    /\ Len(outband) = 1
    /\ outband[1].target.kind = "All"
    /\ Len(applied) = 3
    /\ applied[1].output.kind = "Drop"
    /\ applied[2].output.kind = "AtInstant"
    /\ Len(nodes_map[popped[1].recipient].messages_produced) = 1
    /\ Produced(nodes_map) = 1

\* C30: finalized_values of every node is empty at construction and stays
\* empty after any sequence of schedule_message and crank calls.
C30_FinalizedValuesEmpty ==
    \A id \in DOMAIN nodes_map : nodes_map[id].finalized_values = <<>>

\* After two injections and two cranks a node has received and produced
\* messages, and has finalized nothing.
C30_Witness ==
    /\ injected = 2
    /\ cranks = 2
    /\ \E id \in DOMAIN nodes_map :
          /\ Len(nodes_map[id].messages_received) = 2
          /\ Len(nodes_map[id].messages_produced) = 1
          /\ nodes_map[id].finalized_values = <<>>

\* a and b have the same delivery_time, recipient and payload, and different
\* senders.
SameKeyOtherSender(a, b) ==
    /\ a.delivery_time = b.delivery_time
    /\ a.recipient = b.recipient
    /\ a.message.payload = b.message.payload
    /\ a.message.sender # b.message.sender

\* C31: the QueueEntry order ignores the sender: two queued entries with the
\* same delivery_time, recipient and payload and different senders compare
\* Equal though they differ as values, so the order does not say which of
\* them comes first: Queue::pop may return the one when it may return the
\* other.
C31_OrderIgnoresSender ==
    \A a, b \in BagToSet(msg_queue) :
        SameKeyOtherSender(a, b)
        => /\ EntryCmp(a, b) = Equal
           /\ EntryCmp(b, a) = Equal
           /\ a # b
           /\ a \in QueuePop(msg_queue) <=> b \in QueuePop(msg_queue)

\* Two entries that differ in the sender only were queued; a crank has popped
\* one of them and the other is still queued.
C31_Witness ==
    /\ injected = 2
    /\ cranks = 1
    /\ Len(popped) = 1
    /\ \E b \in BagToSet(msg_queue) : SameKeyOtherSender(popped[1], b)

\* C33: start_time and consensus_values keep the values TestHarness::new
\* gave them through every call of schedule_message and crank, and crank puts
\* no consensus value anywhere: every entry it pushes carries a message the
\* protocol instance returned, and no node's finalized_values changes.
C33_NoProposals ==
    [][/\ start_time' = start_time
       /\ consensus_values' = consensus_values
       /\ \A id \in DOMAIN nodes_map :
             nodes_map'[id].finalized_values = nodes_map[id].finalized_values
       /\ (CrankStep /\ crank_result'.kind = "Ok")
             => \A e \in BagToSet(Pushed) :
                   \E k \in 1..Len(outband') : outband'[k].message = e.message
       /\ (CrankStep /\ crank_result'.kind # "Ok") => msg_queue' \sqsubseteq msg_queue]_vars

\* A harness built with a value to propose has scheduled and dispatched
\* messages, one of them with a payload other than that value.
C33_Witness ==
    /\ consensus_values = <<1>>
    /\ start_time = 0
    /\ injected = 2
    /\ cranks = 2
    /\ crank_result.kind = "Ok"
    /\ Len(applied) >= 1
    /\ applied[1].message.payload # consensus_values[1]
    /\ BagCardinality(msg_queue) >= 1

\* The node of the list given to TestHarness::new that was supplied last
\* among those with this id.
LastGiven(id) ==
    LET last == CHOOSE i \in 1..Len(nodes_given) :
                    /\ nodes_given[i].id = id
                    /\ \A j \in (i + 1)..Len(nodes_given) : nodes_given[j].id # id
    IN  nodes_given[last]

\* C34: TestHarness::new given several nodes with the same NodeId keeps one
\* node for each distinct id, the one supplied last, and a broadcast resolves
\* to each id of the table once.
C34_UniqueNodeIds ==
    [][/\ DOMAIN nodes_map = {nodes_given[i].id : i \in 1..Len(nodes_given)}
       /\ \A id \in DOMAIN nodes_map :
             /\ nodes_map[id].id = id
             /\ nodes_map[id].is_faulty = LastGiven(id).is_faulty
             /\ nodes_map[id].consensus.kind = LastGiven(id).consensus.kind
             /\ cranks = 0 => nodes_map[id] = LastGiven(id)
       /\ (/\ CrankStep
           /\ crank_result'.kind = "Ok"
           /\ Len(outband') = 1
           /\ outband'[1].target.kind = "All")
          => /\ Len(applied') = Cardinality(DOMAIN nodes_map)
             /\ {applied'[i].node_id : i \in 1..Len(applied')} = DOMAIN nodes_map]_vars

\* The harness was given 3 nodes, the first two with the same id; its table
\* holds 2 nodes, and a broadcast was resolved to the 2 ids.
C34_Witness ==
    /\ Len(nodes_given) = 3
    /\ nodes_given[1].id = nodes_given[2].id
    /\ Cardinality(DOMAIN nodes_map) = 2
    /\ crank_result.kind = "Ok"
    /\ Len(outband) = 1
    /\ outband[1].target.kind = "All"
    /\ Len(applied) = 2

\* C32: no starvation: under a strategy that never drops and always answers
\* a later instant, with crank called again and again and protocol instances
\* that return a message on every dispatch, every entry that is in the queue
\* and names a node of the table is eventually popped and dispatched.  Stated
\* for the entries for node 1 that carry Message(1, 0), at every Instant below
\* TimeHorizon.
C32_NoStarvation ==
    \A e \in [delivery_time : Instants, recipient : {1}, message : {Message(1, 0)}] :
        (BagIn(e, msg_queue) /\ e.recipient \in DOMAIN nodes_map)
            ~> (popped = <<e>> /\ crank_result.kind = "Ok")

====
